---- MODULE Spec2Model ----
(***************************************************************************)
(* The volki plugin runtime (src/extnl/pip/volki/__init__.py) and the      *)
(* example plugin (volki_plugin_example/volki_plugin.py) as a state        *)
(* machine: one process reads one JSON request from standard input,        *)
(* dispatches it to a hook handler and writes one JSON response.           *)
(***************************************************************************)
EXTENDS Integers, Sequences, FiniteSets, TLC

(***************************************************************************)
(* Bounds of the model.                                                    *)
(***************************************************************************)
\* Longest token sequence the host puts in data.tokens.
MaxTokens == 2

(***************************************************************************)
(* JSON text, as the documents it denotes.  A document is tagged by its    *)
(* JSON kind; NotJson is any text that is not a JSON document.             *)
(***************************************************************************)
NotJson == [k |-> "garbage"]
JNull == [k |-> "null"]
JTrue == [k |-> "true"]
JFalse == [k |-> "false"]
\* A number literal without fraction or exponent (1) and with one (1.0).
JInt(n) == [k |-> "number", v |-> [n |-> n, frac |-> FALSE]]
JReal(n) == [k |-> "number", v |-> [n |-> n, frac |-> TRUE]]
JStr(s) == [k |-> "string", v |-> s]
JArr(items) == [k |-> "array", v |-> items]
JObj(members) == [k |-> "object", v |-> members]

(***************************************************************************)
(* Python values, tagged by their class.                                   *)
(***************************************************************************)
PyNone == [k |-> "NoneType"]
PyBool(b) == [k |-> "bool", v |-> b]
PyInt(n) == [k |-> "int", v |-> n]
PyFloat(n) == [k |-> "float", v |-> n]
PyStr(s) == [k |-> "str", v |-> s]
PyList(items) == [k |-> "list", v |-> items]
PyDict(members) == [k |-> "dict", v |-> members]
\* A value of a class json cannot encode (a set).
PySet == [k |-> "set"]

\* The classes a value of class c is an instance of (bool subclasses int).
ClassesOf(c) ==
    IF c = "bool" THEN {"bool", "int", "object"} ELSE {c, "object"}

\* isinstance(v, classes)
isinstance(v, classes) == ClassesOf(v.k) \cap classes # {}

\* Python truth value of v, as `or` tests it.
Truthy(v) ==
    CASE v.k = "NoneType" -> FALSE
      [] v.k = "bool" -> v.v
      [] v.k \in {"int", "float"} -> v.v # 0
      [] v.k = "str" -> v.v # ""
      [] v.k = "list" -> Len(v.v) > 0
      [] v.k = "dict" -> DOMAIN v.v # {}
      [] OTHER -> TRUE

\* d.get(key): the member, or None when the key is absent.
dict_get(d, key) == IF key \in DOMAIN d.v THEN d.v[key] ELSE PyNone

\* d.get(key, default)
dict_get_default(d, key, default) ==
    IF key \in DOMAIN d.v THEN d.v[key] ELSE default

(***************************************************************************)
(* json.loads and json.dumps.                                              *)
(***************************************************************************)
\* json.loads on a JSON document: JSON kinds become Python classes.
RECURSIVE json_loads(_)
json_loads(doc) ==
    CASE doc.k = "null" -> PyNone
      [] doc.k = "true" -> PyBool(TRUE)
      [] doc.k = "false" -> PyBool(FALSE)
      [] doc.k = "number" ->
            IF doc.v.frac THEN PyFloat(doc.v.n) ELSE PyInt(doc.v.n)
      [] doc.k = "string" -> PyStr(doc.v)
      [] doc.k = "array" ->
            PyList([i \in 1..Len(doc.v) |-> json_loads(doc.v[i])])
      [] doc.k = "object" ->
            PyDict([key \in DOMAIN doc.v |-> json_loads(doc.v[key])])

\* Whether json.dumps can encode v (otherwise it raises TypeError).
RECURSIVE json_encodable(_)
json_encodable(v) ==
    CASE v.k \in {"NoneType", "bool", "int", "float", "str"} -> TRUE
      [] v.k = "list" -> \A i \in 1..Len(v.v) : json_encodable(v.v[i])
      [] v.k = "dict" -> \A key \in DOMAIN v.v : json_encodable(v.v[key])
      [] OTHER -> FALSE

\* json.dumps on an encodable value.
RECURSIVE json_dumps(_)
json_dumps(v) ==
    CASE v.k = "NoneType" -> JNull
      [] v.k = "bool" -> IF v.v THEN JTrue ELSE JFalse
      [] v.k = "int" -> JInt(v.v)
      [] v.k = "float" -> JReal(v.v)
      [] v.k = "str" -> JStr(v.v)
      [] v.k = "list" -> JArr([i \in 1..Len(v.v) |-> json_dumps(v.v[i])])
      [] v.k = "dict" ->
            JObj([key \in DOMAIN v.v |-> json_dumps(v.v[key])])

(***************************************************************************)
(* Exceptions: the class, str(exc), and the exit status the interpreter    *)
(* ends with when the exception is never caught.                           *)
(***************************************************************************)
NoExc == [cls |-> "none", msg |-> "", code |-> 0]
Exc(cls, msg) == [cls |-> cls, msg |-> msg, code |-> 1]
\* SystemExit(code): not a subclass of Exception.
SystemExitExc(code) == [cls |-> "SystemExit", msg |-> "", code |-> code]
\* KeyboardInterrupt: not a subclass of Exception.
KeyboardInterruptExc == [cls |-> "KeyboardInterrupt", msg |-> "", code |-> 130]

\* issubclass(cls, Exception)
IsException(cls) == cls \notin {"none", "SystemExit", "KeyboardInterrupt"}

\* The outcome of a call: a returned value or a raised exception.
Returned(val) == [val |-> val, exc |-> NoExc]
Raised(exc) == [val |-> PyNone, exc |-> exc]

(***************************************************************************)
(* The runtime's pure steps.                                               *)
(***************************************************************************)
HOOKS ==
    { "formatter.before_all", "formatter.after_normalize",
      "formatter.before_whitespace", "formatter.after_all" }

\* Exceptions raised while parsing.
JSONDecodeError == Exc("JSONDecodeError", "Expecting value: line 1 column 1 (char 0)")
\* req.get on a value that is no dict.
NoGetAttribute(v) ==
    Exc("AttributeError", "'" \o v.k \o "' object has no attribute 'get'")

\* _parse_request without the check of version.
parse_request_unversioned(raw) ==
    IF raw = NotJson THEN Raised(JSONDecodeError)
    ELSE LET req == json_loads(raw) IN
        IF req.k # "dict" THEN Raised(NoGetAttribute(req))
        ELSE IF ~isinstance(dict_get(req, "hook"), {"str"})
            THEN Raised(Exc("ValueError", "missing or invalid 'hook' field"))
        ELSE IF ~isinstance(dict_get(req, "data"), {"dict"})
            THEN Raised(Exc("ValueError", "missing or invalid 'data' field"))
        ELSE Returned(req)

\* _parse_request that accepts only the hook names of HOOKS.
parse_request_closed_hooks(raw) ==
    IF raw = NotJson THEN Raised(JSONDecodeError)
    ELSE LET req == json_loads(raw) IN
        IF req.k # "dict" THEN Raised(NoGetAttribute(req))
        ELSE IF ~isinstance(dict_get(req, "version"), {"int", "float"})
            THEN Raised(Exc("ValueError", "missing or invalid 'version' field"))
        ELSE IF ~isinstance(dict_get(req, "hook"), {"str"})
            THEN Raised(Exc("ValueError", "missing or invalid 'hook' field"))
        ELSE IF dict_get(req, "hook").v \notin HOOKS
            THEN Raised(Exc("ValueError", "missing or invalid 'hook' field"))
        ELSE IF ~isinstance(dict_get(req, "data"), {"dict"})
            THEN Raised(Exc("ValueError", "missing or invalid 'data' field"))
        ELSE Returned(req)

\* _parse_request that lets a request without version through (it checks
\* version only when there is one).
parse_request_optional_version(raw) ==
    IF raw = NotJson THEN Raised(JSONDecodeError)
    ELSE LET req == json_loads(raw) IN
        IF req.k # "dict" THEN Raised(NoGetAttribute(req))
        ELSE IF /\ dict_get(req, "version") # PyNone
                /\ ~isinstance(dict_get(req, "version"), {"int", "float"})
            THEN Raised(Exc("ValueError", "missing or invalid 'version' field"))
        ELSE IF ~isinstance(dict_get(req, "hook"), {"str"})
            THEN Raised(Exc("ValueError", "missing or invalid 'hook' field"))
        ELSE IF ~isinstance(dict_get(req, "data"), {"dict"})
            THEN Raised(Exc("ValueError", "missing or invalid 'data' field"))
        ELSE Returned(req)

\* _parse_request(raw): json.loads, then the three isinstance checks.
_parse_request(raw) ==
    IF raw = NotJson THEN Raised(JSONDecodeError)
    ELSE LET req == json_loads(raw) IN
        IF req.k # "dict" THEN Raised(NoGetAttribute(req))
        ELSE IF ~isinstance(dict_get(req, "version"), {"int", "float"})
            THEN Raised(Exc("ValueError", "missing or invalid 'version' field"))
        ELSE IF ~isinstance(dict_get(req, "hook"), {"str"})
            THEN Raised(Exc("ValueError", "missing or invalid 'hook' field"))
        ELSE IF ~isinstance(dict_get(req, "data"), {"dict"})
            THEN Raised(Exc("ValueError", "missing or invalid 'data' field"))
        ELSE Returned(req)

\* Standard output before anything is written.
EmptyStream == [written |-> <<>>, flushed |-> 0]

\* _write_response without the flush: the line stays in the stream's buffer.
_write_response_unflushed(out, obj) ==
    IF ~json_encodable(obj)
    THEN [out |-> out,
          exc |-> Exc("TypeError",
                      "Object of type " \o "set" \o " is not JSON serializable")]
    ELSE [out |-> [written |-> Append(out.written,
                                      [json |-> json_dumps(obj), newline |-> TRUE]),
                   flushed |-> out.flushed],
          exc |-> NoExc]

\* _write_response that encodes straight into the stream (json.dump): the
\* members encoded before the failure are already written when it is raised.
_write_response_streaming(out, obj) ==
    IF ~json_encodable(obj)
    THEN LET done == {key \in DOMAIN obj.v : json_encodable(obj.v[key])}
             partial == PyDict([key \in done |-> obj.v[key]])
         IN [out |-> [written |-> Append(out.written,
                                         [json |-> json_dumps(partial),
                                          newline |-> FALSE]),
                      flushed |-> out.flushed],
             exc |-> Exc("TypeError",
                         "Object of type " \o "set" \o " is not JSON serializable")]
    ELSE [out |-> [written |-> Append(out.written,
                                      [json |-> json_dumps(obj), newline |-> TRUE]),
                   flushed |-> Len(out.written) + 1],
          exc |-> NoExc]

\* _write_response(obj) on stream out: json.dumps(obj) + "\n" is built first
\* (TypeError when obj cannot be encoded), then written, then flushed.
_write_response(out, obj) ==
    IF ~json_encodable(obj)
    THEN [out |-> out,
          exc |-> Exc("TypeError",
                      "Object of type " \o "set" \o " is not JSON serializable")]
    ELSE [out |-> [written |-> Append(out.written,
                                      [json |-> json_dumps(obj), newline |-> TRUE]),
                   flushed |-> Len(out.written) + 1],
          exc |-> NoExc]

\* The three response objects create_plugin builds.
SkipResponse == PyDict([version |-> PyInt(1), status |-> PyStr("skip")])
\* The ok response with the members of result spread into it.
OkResponse_spread(result) ==
    IF result.k = "dict"
    THEN PyDict(result.v @@ [version |-> PyInt(1), status |-> PyStr("ok")])
    ELSE PyDict([version |-> PyInt(1), status |-> PyStr("ok"), data |-> result])
OkResponse(result) ==
    PyDict([version |-> PyInt(1), status |-> PyStr("ok"), data |-> result])
\* The error response with an empty data member next to error.
ErrorResponse_with_data(exc) ==
    PyDict([version |-> PyInt(1), status |-> PyStr("error"),
            error |-> PyStr(exc.msg), data |-> PyNone])

ErrorResponse(exc) ==
    PyDict([version |-> PyInt(1), status |-> PyStr("error"),
            error |-> PyStr(exc.msg)])

\* The response chosen by `if not result`: skip for every falsy value.
ResponseFor_falsy(result) ==
    IF ~Truthy(result) THEN SkipResponse
    ELSE PyDict([version |-> PyInt(1), status |-> PyStr("ok"), data |-> result])

\* The response for what the handler returned, with a note on the skip of a
\* handler that declined.
ResponseFor_declined(result) ==
    IF result = PyNone
    THEN PyDict([version |-> PyInt(1), status |-> PyStr("skip"),
                 declined |-> PyBool(TRUE)])
    ELSE OkResponse(result)

\* The response for what the handler returned: skip for None only.
ResponseFor(result) ==
    IF result = PyNone THEN SkipResponse ELSE OkResponse(result)

\* A lookup that falls back to some registered handler.
handlers_get_fallback(hs, hook) ==
    IF hook \in DOMAIN hs THEN hs[hook]
    ELSE IF DOMAIN hs # {} THEN hs[CHOOSE h \in DOMAIN hs : TRUE]
    ELSE "None"

\* handlers.get(hook): the handler registered under hook, or None.
NoHandler == "None"
handlers_get(hs, hook) ==
    IF hook \in DOMAIN hs THEN hs[hook] ELSE NoHandler

\* request.get("plugin_options") without the `or {}`.
options_of_undefaulted(request) == dict_get(request, "plugin_options")

\* request.get("plugin_options") or {}
options_of(request) ==
    LET given == dict_get(request, "plugin_options") IN
    IF Truthy(given) THEN given ELSE PyDict(<<>>)

\* The status of a process whose script runs to its end.
EXIT_SUCCESS == 0
\* sys.exit(0) in the except clause.
exit_failure_as_success == EXIT_SUCCESS
\* The status sys.exit(1) ends the process with.
EXIT_FAILURE == 1

(***************************************************************************)
(* The example plugin's handlers.                                          *)
(***************************************************************************)
PyTok(kind, text, line, col) ==
    PyDict([kind |-> PyStr(kind), text |-> PyStr(text),
            line |-> PyInt(line), col |-> PyInt(col)])

\* The banner used when plugin_options has no banner_text.
DEFAULT_BANNER == "Generated file - do not edit"

\* A handler's outcome: what it returns or raises, what it writes to
\* standard error, and the Data object (passed by reference) as the call
\* leaves it.
Outcome(call, err, data) ==
    [val |-> call.val, exc |-> call.exc, err |-> err, data |-> data]

\* "// " + banner for a banner that is no str.
NoConcatenate(v) ==
    Exc("TypeError",
        "can only concatenate str (not \"" \o v.k \o "\") to str")

\* before_all that looks for the banner text without the comment marker.
before_all_bare_banner(data, options) ==
    IF options.k # "dict" THEN Outcome(Raised(NoGetAttribute(options)), <<>>, data)
    ELSE IF "tokens" \notin DOMAIN data.v
        THEN Outcome(Raised(Exc("KeyError", "'tokens'")), <<>>, data)
    ELSE IF dict_get_default(options, "banner_text", PyStr(DEFAULT_BANNER)).k # "str"
        THEN Outcome(Raised(NoConcatenate(dict_get(options, "banner_text"))),
                     <<>>, data)
    ELSE
        LET banner == dict_get_default(options, "banner_text",
                                       PyStr(DEFAULT_BANNER)).v
            tokens == data.v["tokens"].v
            prefix == << PyTok("LineComment", "// " \o banner, 0, 0),
                         PyTok("Newline", "\n", 0, 0) >>
        IN  IF /\ Len(tokens) > 0
               /\ tokens[1].v["kind"] = PyStr("LineComment")
               /\ tokens[1].v["text"] = PyStr(banner)
            THEN Outcome(Returned(PyNone), <<>>, data)
            ELSE Outcome(Returned(PyDict([tokens |-> PyList(prefix \o tokens)])),
                         <<>>, data)

\* before_all that puts the banner after the tokens.
before_all_suffix(data, options) ==
    IF options.k # "dict" THEN Outcome(Raised(NoGetAttribute(options)), <<>>, data)
    ELSE IF "tokens" \notin DOMAIN data.v
        THEN Outcome(Raised(Exc("KeyError", "'tokens'")), <<>>, data)
    ELSE IF dict_get_default(options, "banner_text", PyStr(DEFAULT_BANNER)).k # "str"
        THEN Outcome(Raised(NoConcatenate(dict_get(options, "banner_text"))),
                     <<>>, data)
    ELSE
        LET banner == dict_get_default(options, "banner_text",
                                       PyStr(DEFAULT_BANNER)).v
            tokens == data.v["tokens"].v
            prefix == << PyTok("LineComment", "// " \o banner, 0, 0),
                         PyTok("Newline", "\n", 0, 0) >>
        IN  IF /\ Len(tokens) > 0
               /\ tokens[1].v["kind"] = PyStr("LineComment")
               /\ tokens[1].v["text"] = PyStr("// " \o banner)
            THEN Outcome(Returned(PyNone), <<>>, data)
            ELSE Outcome(Returned(PyDict([tokens |-> PyList(tokens \o prefix)])),
                         <<>>, data)

\* before_all that inserts the banner into the list it was given
\* (tokens[:0] = prefix) and returns that list.
before_all_inplace(data, options) ==
    IF options.k # "dict" THEN Outcome(Raised(NoGetAttribute(options)), <<>>, data)
    ELSE IF "tokens" \notin DOMAIN data.v
        THEN Outcome(Raised(Exc("KeyError", "'tokens'")), <<>>, data)
    ELSE IF dict_get_default(options, "banner_text", PyStr(DEFAULT_BANNER)).k # "str"
        THEN Outcome(Raised(NoConcatenate(dict_get(options, "banner_text"))),
                     <<>>, data)
    ELSE
        LET banner == dict_get_default(options, "banner_text",
                                       PyStr(DEFAULT_BANNER)).v
            tokens == data.v["tokens"].v
            prefix == << PyTok("LineComment", "// " \o banner, 0, 0),
                         PyTok("Newline", "\n", 0, 0) >>
        IN  IF /\ Len(tokens) > 0
               /\ tokens[1].v["kind"] = PyStr("LineComment")
               /\ tokens[1].v["text"] = PyStr("// " \o banner)
            THEN Outcome(Returned(PyNone), <<>>, data)
            ELSE Outcome(Returned(PyDict([tokens |-> PyList(prefix \o tokens)])),
                         <<>>,
                         PyDict([data.v EXCEPT
                                   !["tokens"] = PyList(prefix \o tokens)]))

\* before_all(data, options) of the example plugin.
before_all(data, options) ==
    IF options.k # "dict" THEN Outcome(Raised(NoGetAttribute(options)), <<>>, data)
    ELSE IF "tokens" \notin DOMAIN data.v
        THEN Outcome(Raised(Exc("KeyError", "'tokens'")), <<>>, data)
    ELSE IF dict_get_default(options, "banner_text", PyStr(DEFAULT_BANNER)).k # "str"
        THEN Outcome(Raised(NoConcatenate(dict_get(options, "banner_text"))),
                     <<>>, data)
    ELSE
        LET banner == dict_get_default(options, "banner_text",
                                       PyStr(DEFAULT_BANNER)).v
            tokens == data.v["tokens"].v
            prefix == << PyTok("LineComment", "// " \o banner, 0, 0),
                         PyTok("Newline", "\n", 0, 0) >>
        IN  IF /\ Len(tokens) > 0
               /\ tokens[1].v["kind"] = PyStr("LineComment")
               /\ tokens[1].v["text"] = PyStr("// " \o banner)
            THEN Outcome(Returned(PyNone), <<>>, data)
            ELSE Outcome(Returned(PyDict([tokens |-> PyList(prefix \o tokens)])),
                         <<>>, data)

\* after_all(data, options) of the example plugin.
after_all(data, options) ==
    IF "tokens" \notin DOMAIN data.v
    THEN Outcome(Raised(Exc("KeyError", "'tokens'")), <<>>, data)
    ELSE Outcome(Returned(PyNone),
                 << "[volki-plugin-example] token count: "
                    \o ToString(Len(data.v["tokens"].v)) \o "\n" >>,
                 data)

\* The mapping the example plugin gives to create_plugin.
ExamplePlugin ==
    ("formatter.before_all" :> "before_all")
        @@ ("formatter.after_all" :> "after_all")

(***************************************************************************)
(* Handlers of other plugin authors: callbacks the runtime knows nothing   *)
(* about.  A call returns None, a mapping with tokens, some other value,   *)
(* or raises.                                                              *)
(***************************************************************************)
Reverse(seq) == [i \in 1..Len(seq) |-> seq[Len(seq) + 1 - i]]

\* Token lists an author's handler may answer with: the input as it is,
\* the input reversed, and two tokens of its own.
AuthorOwnTokens ==
    << PyTok("BlockComment", "/* a */", 0, 0), PyTok("Identifier", "y", 2, 4) >>

AuthorTokenLists(data) ==
    LET own == AuthorOwnTokens
        given == IF "tokens" \in DOMAIN data.v /\ data.v["tokens"].k = "list"
                 THEN data.v["tokens"].v ELSE <<>>
    IN  {given, Reverse(given), own}

AuthorOutcomes(data, options) ==
    { Outcome(Returned(PyDict([tokens |-> PyList(T)])), <<>>, data) :
        T \in AuthorTokenLists(data) }
    \cup
    \* data["tokens"] = [...] in place, then decline
    { Outcome(Returned(PyNone), <<>>,
              PyDict([tokens |-> PyList(AuthorOwnTokens)] @@ data.v)) }
    \cup
    { Outcome(c, <<>>, data) : c \in
        { Returned(PyNone), Returned(PyDict(<<>>)), Returned(PyInt(0)),
          Returned(PySet),
          Raised(Exc("RuntimeError", "boom")), Raised(Exc("ValueError", "")),
          Raised(SystemExitExc(0)), Raised(SystemExitExc(2)),
          Raised(KeyboardInterruptExc) } }

\* The name an author's handler registered under hook goes by.
AuthorHandler(hook) == "handler@" \o hook

\* handler(data, options): every outcome the call may have.
HandlerOutcomes(handler, data, options) ==
    CASE handler = "before_all" -> {before_all(data, options)}
      [] handler = "after_all" -> {after_all(data, options)}
      [] OTHER -> AuthorOutcomes(data, options)

(***************************************************************************)
(* What the host may send, and the mappings given to create_plugin.        *)
(***************************************************************************)
JTok(kind, text, line, col) ==
    JObj([kind |-> JStr(kind), text |-> JStr(text),
          line |-> JInt(line), col |-> JInt(col)])

InputTokens ==
    { JTok("Identifier", "x", 1, 1),
      JTok("LineComment", "// Generated", 0, 0),
      JTok("LineComment", "// " \o DEFAULT_BANNER, 0, 0),
      JTok("Newline", "\n", 0, 0) }

TokenSeqs == UNION { [1..n -> InputTokens] : n \in 0..MaxTokens }

InputConfig ==
    JObj([print_width |-> JInt(80), tab_width |-> JInt(2), use_tabs |-> JFalse,
          semi |-> JTrue, single_quote |-> JFalse, bracket_spacing |-> JTrue])

\* A member the request leaves out.
Absent == [k |-> "absent"]

VersionChoices ==
    {Absent, JInt(1), JInt(2), JReal(1), JTrue, JStr("1"), JNull}
HookChoices ==
    {Absent, JInt(7)} \cup
    { JStr(h) : h \in { "formatter.before_all", "formatter.after_normalize",
                        "formatter.after_all", "custom.hook" } }
DataChoices ==
    {Absent, JArr(<<>>), JObj(<<>>)} \cup
    { JObj([tokens |-> JArr(T), config |-> InputConfig]) : T \in TokenSeqs }
OptionsChoices ==
    { Absent, JNull, JObj(<<>>), JObj([banner_text |-> JStr("Generated")]),
      JObj([banner_text |-> JInt(7)]), JStr(""), JStr("s") }

\* The JSON object with the members that are not left out.
RequestDoc(version, hook, data, plugin_options) ==
    LET all == [version |-> version, hook |-> hook, data |-> data,
                plugin_options |-> plugin_options]
    IN  JObj([key \in {x \in DOMAIN all : all[x] # Absent} |-> all[key]])

\* Every text the host may write to the plugin's standard input.
Requests ==
    {NotJson, JArr(<<>>), JStr("formatter.before_all"), JInt(1), JNull}
    \cup { RequestDoc(v, h, d, o) : v \in VersionChoices, h \in HookChoices,
                                    d \in DataChoices, o \in OptionsChoices }

\* The mappings given to create_plugin.
HandlerMappings ==
    {ExamplePlugin} \cup
    { [h \in S |-> AuthorHandler(h)] :
        S \in SUBSET {"formatter.before_all", "custom.hook"} }

(***************************************************************************)
(* The process.                                                            *)
(***************************************************************************)
VARIABLES
    handlers,     \* the mapping given to create_plugin
    stdin,        \* what the host writes, and whether it has closed the stream
    pc,           \* where create_plugin is
    raw,          \* local raw
    request,      \* local request
    handler,      \* local handler
    options,      \* local options
    result,       \* local result
    exc,          \* the exception in flight
    stdout,       \* standard output
    stderr,       \* standard error
    exit_status,  \* <<>> while running, <<code>> once the process has ended
    calls         \* the handler calls made so far

vars ==
    << handlers, stdin, pc, raw, request, handler, options, result, exc,
       stdout, stderr, exit_status, calls >>

\* A local not yet bound.
Unbound == [k |-> "unbound"]

Init ==
    /\ handlers \in HandlerMappings
    /\ stdin \in { [closed |-> FALSE, text |-> t] : t \in Requests }
    /\ pc = "Start"
    /\ raw = Unbound
    /\ request = Unbound
    /\ handler = "unbound"
    /\ options = Unbound
    /\ result = Unbound
    /\ exc = NoExc
    /\ stdout = EmptyStream
    /\ stderr = <<>>
    /\ exit_status = <<>>
    /\ calls = <<>>

\* The host finishes writing the request and closes the stream.
HostCloseInput ==
    /\ ~stdin.closed
    /\ stdin' = [stdin EXCEPT !.closed = TRUE]
    /\ UNCHANGED << handlers, pc, raw, request, handler, options, result, exc,
                    stdout, stderr, exit_status, calls >>

\* create_plugin is called and starts reading standard input.
Start ==
    /\ pc = "Start"
    /\ pc' = "ReadInput"
    /\ UNCHANGED << handlers, stdin, raw, request, handler, options, result,
                    exc, stdout, stderr, exit_status, calls >>

\* A read that returns what has arrived so far without waiting for the end
\* of the stream.
ReadInput_before_close ==
    /\ pc = "ReadInput"
    /\ raw' = stdin.text
    /\ pc' = "Parse"
    /\ UNCHANGED << handlers, stdin, request, handler, options, result, exc,
                    stdout, stderr, exit_status, calls >>

\* raw = _read_stdin(): returns once the host has closed the stream.
ReadInput ==
    /\ pc = "ReadInput"
    /\ stdin.closed
    /\ raw' = stdin.text
    /\ pc' = "Parse"
    /\ UNCHANGED << handlers, stdin, request, handler, options, result, exc,
                    stdout, stderr, exit_status, calls >>

\* request = _parse_request(raw)
Parse ==
    /\ pc = "Parse"
    /\ LET r == _parse_request(raw) IN
        IF r.exc = NoExc
        THEN /\ request' = r.val
             /\ pc' = "Lookup"
             /\ UNCHANGED exc
        ELSE /\ exc' = r.exc
             /\ pc' = "Except"
             /\ UNCHANGED request
    /\ UNCHANGED << handlers, stdin, raw, handler, options, result, stdout,
                    stderr, exit_status, calls >>

\* handler = handlers.get(request["hook"])
Lookup ==
    /\ pc = "Lookup"
    /\ handler' = handlers_get(handlers, request.v["hook"].v)
    /\ pc' = IF handler' = NoHandler THEN "NoHandler" ELSE "HasHandler"
    /\ UNCHANGED << handlers, stdin, raw, request, options, result, exc,
                    stdout, stderr, exit_status, calls >>

\* A lookup by handlers[hook]: a missing handler raises KeyError.
RespondNoHandler_KeyError ==
    /\ pc = "NoHandler"
    /\ exc' = Exc("KeyError", "'" \o request.v["hook"].v \o "'")
    /\ pc' = "Except"
    /\ UNCHANGED << handlers, stdin, raw, request, handler, options, result,
                    stdout, stderr, exit_status, calls >>

\* if handler is None: write the skip response and return.
RespondNoHandler ==
    /\ pc = "NoHandler"
    /\ stdout' = _write_response(stdout, SkipResponse).out
    /\ pc' = "Return"
    /\ UNCHANGED << handlers, stdin, raw, request, handler, options, result,
                    exc, stderr, exit_status, calls >>

\* options = request.get("plugin_options") or {}
ExtractOptions ==
    /\ pc = "HasHandler"
    /\ options' = options_of(request)
    /\ pc' = "Invoke"
    /\ UNCHANGED << handlers, stdin, raw, request, handler, result, exc,
                    stdout, stderr, exit_status, calls >>

\* result = handler(request["data"], options)
Invoke ==
    /\ pc = "Invoke"
    /\ \E o \in HandlerOutcomes(handler, request.v["data"], options) :
        /\ calls' = Append(calls, [fn |-> handler, data |-> request.v["data"],
                                   options |-> options])
        /\ stderr' = stderr \o o.err
        /\ request' = PyDict([request.v EXCEPT !["data"] = o.data])
        /\ IF o.exc = NoExc
           THEN /\ result' = o.val
                /\ pc' = "Respond"
                /\ UNCHANGED exc
           ELSE /\ exc' = o.exc
                /\ pc' = "Except"
                /\ UNCHANGED result
    /\ UNCHANGED << handlers, stdin, raw, handler, options, stdout,
                    exit_status >>

\* Write the skip or ok response for result.
Respond ==
    /\ pc = "Respond"
    /\ LET w == _write_response(stdout, ResponseFor(result)) IN
        /\ stdout' = w.out
        /\ IF w.exc = NoExc
           THEN pc' = "Return" /\ UNCHANGED exc
           ELSE pc' = "Except" /\ exc' = w.exc
    /\ UNCHANGED << handlers, stdin, raw, request, handler, options, result,
                    stderr, exit_status, calls >>

\* create_plugin returns and the script ends.
Return ==
    /\ pc = "Return"
    /\ exit_status' = <<EXIT_SUCCESS>>
    /\ pc' = "Exit"
    /\ UNCHANGED << handlers, stdin, raw, request, handler, options, result,
                    exc, stdout, stderr, calls >>

\* except Exception as exc: write the error response.
Except ==
    /\ pc = "Except"
    /\ IsException(exc.cls)
    /\ stdout' = _write_response(stdout, ErrorResponse(exc)).out
    /\ pc' = "SysExit"
    /\ UNCHANGED << handlers, stdin, raw, request, handler, options, result,
                    exc, stderr, exit_status, calls >>

\* sys.exit(1)
SysExit ==
    /\ pc = "SysExit"
    /\ exit_status' = <<EXIT_FAILURE>>
    /\ pc' = "Exit"
    /\ UNCHANGED << handlers, stdin, raw, request, handler, options, result,
                    exc, stdout, stderr, calls >>

\* An exception the except clause does not name leaves create_plugin and
\* ends the process.
Propagate ==
    /\ pc = "Except"
    /\ ~IsException(exc.cls)
    /\ exit_status' = <<exc.code>>
    /\ pc' = "Exit"
    /\ UNCHANGED << handlers, stdin, raw, request, handler, options, result,
                    exc, stdout, stderr, calls >>

Next ==
    \/ HostCloseInput
    \/ Start
    \/ ReadInput
    \/ Parse
    \/ Lookup
    \/ RespondNoHandler
    \/ ExtractOptions
    \/ Invoke
    \/ Respond
    \/ Return
    \/ Except
    \/ SysExit
    \/ Propagate

Spec == Init /\ [][Next]_vars

(***************************************************************************)
(* Scheduling.  create_plugin is straight-line code in one thread: a step  *)
(* that can run does run, and the blocking read returns once the stream    *)
(* has ended.  Nothing makes the host close the stream.                    *)
(***************************************************************************)
ProcessStep ==
    \/ Start
    \/ ReadInput
    \/ Parse
    \/ Lookup
    \/ RespondNoHandler
    \/ ExtractOptions
    \/ Invoke
    \/ Respond
    \/ Return
    \/ Except
    \/ SysExit
    \/ Propagate

\* Member key of a JSON text, Absent when the text is no object or lacks it.
Member(doc, key) ==
    IF doc.k = "object" /\ key \in DOMAIN doc.v THEN doc.v[key] ELSE Absent

\* Runs on requests with at most MaxFairTokens tokens.
MaxFairTokens == 0

InitFair ==
    /\ Init
    /\ LET tokens == Member(Member(stdin.text, "data"), "tokens") IN
        tokens = Absent \/ Len(tokens.v) <= MaxFairTokens

FairSpec == InitFair /\ [][Next]_vars /\ WF_vars(ProcessStep)

(***************************************************************************)
(* The plugin run again.  The example plugin's module calls create_plugin  *)
(* each time the host starts it; here the host starts it again after a     *)
(* before_all run that was answered, and sends the tokens of that answer   *)
(* (the same tokens when the answer was skip) with the same config and     *)
(* plugin_options.                                                         *)
(***************************************************************************)
MaxRuns == 3

\* The request of the run that ended, with the tokens of its ok response.
NextRequest ==
    IF stdout.written[1].json.v["status"] = JStr("ok")
    THEN LET tokens == stdout.written[1].json.v["data"].v["tokens"]
             data == stdin.text.v["data"]
         IN  JObj([stdin.text.v EXCEPT
                     !["data"] = JObj([data.v EXCEPT !["tokens"] = tokens])])
    ELSE stdin.text

HostReinvoke ==
    /\ pc = "Exit"
    /\ handlers = ExamplePlugin
    /\ handler = "before_all"
    /\ Len(calls) \in 1..(MaxRuns - 1)
    /\ Len(stdout.written) = 1
    /\ stdout.written[1].json.v["status"] \in {JStr("ok"), JStr("skip")}
    /\ stdin' = [closed |-> FALSE, text |-> NextRequest]
    /\ pc' = "Start"
    /\ raw' = Unbound
    /\ request' = Unbound
    /\ handler' = "unbound"
    /\ options' = Unbound
    /\ result' = Unbound
    /\ exc' = NoExc
    /\ stdout' = EmptyStream
    /\ exit_status' = <<>>
    /\ UNCHANGED << handlers, stderr, calls >>

NextTwice == Next \/ HostReinvoke

SpecTwice == Init /\ [][NextTwice]_vars

(***************************************************************************)
(* Vocabulary of the properties: what the host sent and what it observes.  *)
(***************************************************************************)
\* The text the host wrote to standard input.
Text == stdin.text
\* The process has ended.
Terminal == pc = "Exit"
\* The lines written to standard output so far.
Written == stdout.written
\* The parse step has run.
PastParse == pc \notin {"Start", "ReadInput", "Parse"}
\* The parse step returned a request.
Accepted == request # Unbound
\* The hook string of the text (of a text whose hook is a string).
RequestHook == Member(Text, "hook").v
\* The status member of a written line.
StatusOf(line) == line.json.v["status"].v
\* The line {"version": 1, "status": "skip"}.
SkipLine ==
    [json |-> JObj([version |-> JInt(1), status |-> JStr("skip")]),
     newline |-> TRUE]
\* The text is not a request as the specification defines one: no JSON, or
\* version missing or no number, hook missing or no string, data missing or
\* no object.
SpecInvalid ==
    \/ Text = NotJson
    \/ Member(Text, "version").k # "number"
    \/ Member(Text, "hook").k # "string"
    \/ Member(Text, "data").k # "object"

\* The handler was called and returned.
HandlerReturned == Len(calls) > 0 /\ result # Unbound
\* The handler was called and raised.
HandlerRaised == Len(calls) > 0 /\ result = Unbound /\ exc # NoExc

(***************************************************************************)
(* C1.  A request that passes validation and whose hook is no key of the   *)
(* handler mapping is answered with exactly {version: 1, status: "skip"}   *)
(* and the process ends with exit code 0.                                  *)
(***************************************************************************)
C1_NoHandlerSkips ==
    (Terminal /\ Accepted /\ RequestHook \notin DOMAIN handlers)
        => (Written = <<SkipLine>> /\ exit_status = <<0>>)

C1_Witness ==
    /\ Terminal /\ Accepted
    /\ RequestHook = "formatter.after_normalize"
    /\ handlers = ExamplePlugin
    /\ Written = <<SkipLine>>

(***************************************************************************)
(* C2.  When the handler returns {tokens: T}, the one response is          *)
(* {version: 1, status: "ok", data: {tokens: T}} with exit code 0: the     *)
(* same tokens in the same order, no token or field added, and nothing     *)
(* else (such as config) in data.                                          *)
(***************************************************************************)
\* A token as JSON text: each member under its own name, nothing else.
TokenJson(t) ==
    JObj([f \in DOMAIN t.v |->
            IF t.v[f].k = "str" THEN JStr(t.v[f].v) ELSE JInt(t.v[f].v)])

ReturnedTokens ==
    /\ HandlerReturned
    /\ result.k = "dict"
    /\ DOMAIN result.v = {"tokens"}
    /\ result.v["tokens"].k = "list"

C2_TokensVerbatim ==
    (Terminal /\ ReturnedTokens) =>
        LET T == result.v["tokens"].v IN
        /\ Written =
            << [json |-> JObj([version |-> JInt(1), status |-> JStr("ok"),
                               data |-> JObj([tokens |->
                                    JArr([i \in 1..Len(T) |-> TokenJson(T[i])])])]),
                newline |-> TRUE] >>
        /\ exit_status = <<0>>

C2_Witness ==
    /\ Terminal /\ ReturnedTokens
    /\ Len(result.v["tokens"].v) = 2
    /\ result.v["tokens"].v[1] # result.v["tokens"].v[2]
    /\ "config" \in DOMAIN request.v["data"].v
    /\ Len(Written) = 1

(***************************************************************************)
(* C3.  When the handler raises, whatever it raises and whatever the       *)
(* message, the response is {version: 1, status: "error", error: <a        *)
(* non-empty string>}, the exit code is not 0, and the process never ends  *)
(* without a response.  Stated of the requests the specification calls    *)
(* valid.                                                                  *)
(***************************************************************************)
C3_RaiseGivesNonEmptyError ==
    (Terminal /\ ~SpecInvalid /\ HandlerRaised) =>
        /\ Len(Written) = 1
        /\ DOMAIN Written[1].json.v = {"version", "status", "error"}
        /\ Written[1].json.v["version"] = JInt(1)
        /\ Written[1].json.v["status"] = JStr("error")
        /\ Written[1].json.v["error"].k = "string"
        /\ Written[1].json.v["error"].v # ""
        /\ exit_status # <<0>>

(***************************************************************************)
(* C4.  Malformed input (no JSON, JSON that is no object, or an object     *)
(* missing version, hook or data) is answered with status "error" and a    *)
(* non-zero exit, whether or not the hook has a registered handler.        *)
(***************************************************************************)
Malformed ==
    \/ Text = NotJson
    \/ Text.k # "object"
    \/ \E key \in {"version", "hook", "data"} : key \notin DOMAIN Text.v

C4_MalformedGivesError ==
    (Terminal /\ Malformed) =>
        /\ Len(Written) = 1
        /\ StatusOf(Written[1]) = "error"
        /\ exit_status # <<0>>

C4_Witness ==
    /\ Terminal /\ Malformed
    /\ Text.k = "object"
    /\ "data" \notin DOMAIN Text.v
    /\ Member(Text, "hook") = JStr("formatter.before_all")
    /\ "formatter.before_all" \in DOMAIN handlers
    /\ Len(Written) = 1

(***************************************************************************)
(* C5.  When the handler returns None the response is exactly              *)
(* {version: 1, status: "skip"} with exit code 0.  As claimed: every other *)
(* returned value gives an "ok" response.  As amended: every other         *)
(* returned value that json can encode (an empty mapping, 0) gives an "ok" *)
(* response with exit code 0, and one that json cannot encode gives an     *)
(* "error" response with a non-zero exit code.                             *)
(***************************************************************************)
C5_OnlyNoneSkips_Claimed ==
    (Terminal /\ HandlerReturned) =>
        IF result = PyNone
        THEN Written = <<SkipLine>> /\ exit_status = <<0>>
        ELSE Len(Written) = 1 /\ StatusOf(Written[1]) = "ok"

C5_OnlyNoneSkips ==
    (Terminal /\ HandlerReturned) =>
        IF result = PyNone
        THEN Written = <<SkipLine>> /\ exit_status = <<0>>
        ELSE /\ Len(Written) = 1
             /\ IF json_encodable(result)
                THEN StatusOf(Written[1]) = "ok" /\ exit_status = <<0>>
                ELSE StatusOf(Written[1]) = "error" /\ exit_status # <<0>>

C5_Witness ==
    /\ Terminal /\ HandlerReturned
    /\ result = PyDict(<<>>)
    /\ Len(Written) = 1 /\ StatusOf(Written[1]) = "ok"

(***************************************************************************)
(* C6.  Once standard input has been read, exactly one response is written *)
(* before the process ends: never none and never two, on every path.       *)
(***************************************************************************)
C6_ExactlyOneResponse ==
    /\ Len(Written) <= 1
    /\ (Terminal /\ raw # Unbound) => Len(Written) = 1

(***************************************************************************)
(* C7.  In a terminal state the exit code agrees with the status of the    *)
(* response that was written: 0 exactly for "skip" and "ok", non-zero      *)
(* exactly for "error".                                                    *)
(***************************************************************************)
C7_ExitCodeAgrees ==
    (Terminal /\ Len(Written) > 0) =>
        \A i \in 1..Len(Written) :
            /\ StatusOf(Written[i]) \in {"skip", "ok", "error"}
            /\ exit_status = <<0>> <=> StatusOf(Written[i]) \in {"skip", "ok"}
            /\ exit_status # <<0>> <=> StatusOf(Written[i]) = "error"

C7_Witness ==
    /\ Terminal /\ HandlerRaised
    /\ Len(Written) = 1 /\ StatusOf(Written[1]) = "error"
    /\ exit_status = <<1>>

(***************************************************************************)
(* C8.  The parse step fails exactly when the text is no JSON, version is  *)
(* missing or no number (a boolean is no number), hook is missing or no    *)
(* string, or data is missing or no object.                                *)
(***************************************************************************)
C8_ParseFailsExactlyWhen ==
    PastParse => (~Accepted <=> SpecInvalid)

(***************************************************************************)
(* C9.  The handler is called with the request's data and with options     *)
(* that are the empty mapping when plugin_options is absent or null, and   *)
(* the request's plugin_options mapping unchanged otherwise.               *)
(***************************************************************************)
C9_HandlerArguments ==
    \A i \in 1..Len(calls) :
        LET given == Member(Text, "plugin_options") IN
        /\ calls[i].data = json_loads(Member(Text, "data"))
        /\ given \in {Absent, JNull} => calls[i].options = PyDict(<<>>)
        /\ given.k = "object" => calls[i].options = json_loads(given)

C9_Witness ==
    /\ Len(calls) = 1
    /\ Member(Text, "plugin_options") = JNull
    /\ calls[1].options = PyDict(<<>>)
    /\ "tokens" \in DOMAIN calls[1].data.v
    /\ Len(calls[1].data.v["tokens"].v) = 2

(***************************************************************************)
(* C10.  A handler is called exactly once per process: when the request    *)
(* is accepted and its hook has a registered handler, that handler is      *)
(* called once (not again after it raises or declines), and no handler     *)
(* registered under another hook name is ever called.                      *)
(***************************************************************************)
C10_HandlerCalledOnce ==
    /\ Len(calls) <= 1
    /\ \A i \in 1..Len(calls) :
        /\ Accepted
        /\ RequestHook \in DOMAIN handlers
        /\ calls[i].fn = handlers[RequestHook]
    /\ (Terminal /\ Accepted /\ RequestHook \in DOMAIN handlers)
            => Len(calls) = 1

C10_Witness ==
    /\ Terminal /\ HandlerRaised
    /\ Len(calls) = 1
    /\ Cardinality(DOMAIN handlers) = 2
    /\ calls[1].fn = AuthorHandler("custom.hook")

(***************************************************************************)
(* C11.  The steps of a run happen in order: whenever the process exits,   *)
(* every line written to standard output was written and flushed in an     *)
(* earlier step (also on the exit with a non-zero status); a handler is    *)
(* called only after standard input was read to its end and the text was   *)
(* parsed into a request; and nothing is on standard output before the     *)
(* handler has returned or raised.                                         *)
(***************************************************************************)
\* The positions of a run up to and including the handler call.
BeforeHandlerEnds ==
    {"Start", "ReadInput", "Parse", "Lookup", "HasHandler", "Invoke"}

C11_StepOrder ==
    /\ [](Len(calls) > 0 => stdin.closed /\ raw = Text /\ Accepted)
    /\ [](pc \in BeforeHandlerEnds => Written = <<>>)
    /\ [][exit_status' # exit_status
            => /\ stdout' = stdout
               /\ stdout.flushed = Len(Written)]_vars
    /\ [][stdout' # stdout => exit_status = <<>> /\ exit_status' = <<>>]_vars

\* A run that called a handler, wrote the error response and exited with a
\* non-zero status.
C11_Witness ==
    /\ Terminal /\ Len(calls) = 1
    /\ Len(Written) = 1 /\ StatusOf(Written[1]) = "error"
    /\ stdout.flushed = 1
    /\ exit_status = << EXIT_FAILURE >>

(***************************************************************************)
(* C12.  Banner insertion by the example plugin's before_all is            *)
(* idempotent: when the host runs the plugin again on the tokens of an ok  *)
(* response (same plugin_options), or again on the same tokens after a     *)
(* skip response, each later run is answered with skip and exit code 0.    *)
(***************************************************************************)
C12_BannerIdempotent ==
    (Terminal /\ handler = "before_all" /\ Len(calls) >= 2)
        => /\ Written = << SkipLine >>
           /\ exit_status = << EXIT_SUCCESS >>

\* A second run whose input is the output of a first run that inserted the
\* banner before an empty token sequence.
C12_Witness ==
    /\ Terminal /\ handler = "before_all" /\ Len(calls) = 2
    /\ calls[1].data.v["tokens"] = PyList(<<>>)
    /\ Len(calls[2].data.v["tokens"].v) = 2
    /\ Written = << SkipLine >>

\* A third run after a first run that was already answered with skip.
C12_WitnessRepeat ==
    /\ Terminal /\ handler = "before_all" /\ Len(calls) = 3
    /\ calls[1].data = calls[3].data
    /\ Len(calls[1].data.v["tokens"].v) > 0

(***************************************************************************)
(* C13.  A formatter.before_all request to the example plugin whose first  *)
(* token is not the LineComment "// " + banner (banner is the banner_text  *)
(* of plugin_options, the default text without one) is answered ok with    *)
(* the tokens LineComment "// " + banner at (0,0), Newline "\n" at (0,0)   *)
(* and then the input tokens, unchanged and in order; the concatenated     *)
(* text of the output is the banner line followed by the concatenated      *)
(* text of the input.                                                      *)
(***************************************************************************)
\* plugin_options as the specification types it: left out, null, or an
\* object whose banner_text, if any, is a string.
OptionsWellTyped ==
    LET o == Member(Text, "plugin_options") IN
        \/ o \in {Absent, JNull}
        \/ o.k = "object" /\ Member(o, "banner_text").k \in {"absent", "string"}

\* The banner the request asks for.
RequestBanner ==
    LET b == Member(Member(Text, "plugin_options"), "banner_text") IN
        IF b.k = "string" THEN b.v ELSE DEFAULT_BANNER

\* The tokens of the request (of a request whose data has tokens).
RequestTokens == Member(Member(Text, "data"), "tokens").v

\* The text members of JSON tokens, concatenated.
RECURSIVE ConcatText(_)
ConcatText(toks) ==
    IF toks = <<>> THEN "" ELSE toks[1].v["text"].v \o ConcatText(Tail(toks))

\* A before_all request to the example plugin that does not start with the
\* banner.
BannerMissing ==
    /\ handlers = ExamplePlugin
    /\ Accepted
    /\ RequestHook = "formatter.before_all"
    /\ Member(Member(Text, "data"), "tokens") # Absent
    /\ OptionsWellTyped
    /\ ~ /\ Len(RequestTokens) > 0
         /\ RequestTokens[1].v["kind"] = JStr("LineComment")
         /\ RequestTokens[1].v["text"] = JStr("// " \o RequestBanner)

C13_BannerPrepended ==
    (Terminal /\ BannerMissing)
        => /\ Len(Written) = 1
           /\ Written[1].newline
           /\ Written[1].json.k = "object"
           /\ DOMAIN Written[1].json.v = {"version", "status", "data"}
           /\ Written[1].json.v["status"] = JStr("ok")
           /\ Written[1].json.v["data"] =
                JObj([tokens |->
                        JArr(<< JTok("LineComment", "// " \o RequestBanner, 0, 0),
                                JTok("Newline", "\n", 0, 0) >>
                             \o RequestTokens)])
           /\ ConcatText(Written[1].json.v["data"].v["tokens"].v)
                = "// " \o RequestBanner \o "\n" \o ConcatText(RequestTokens)

\* The banner "// Generated" put before two tokens, the first of them the
\* comment of the default banner.
C13_Witness ==
    /\ Terminal /\ BannerMissing
    /\ RequestBanner = "Generated"
    /\ Len(RequestTokens) = 2
    /\ RequestTokens[1] = JTok("LineComment", "// " \o DEFAULT_BANNER, 0, 0)
    /\ Len(Written[1].json.v["data"].v["tokens"].v) = 4

(***************************************************************************)
(* C14.  "No handler registered" and "handler declined" cannot be told     *)
(* apart: a run whose request names a hook without a handler and a run     *)
(* whose handler returns None leave the same bytes on standard output and  *)
(* the same exit code.  Every such run leaves one and the same stream and  *)
(* code, so any two of them agree.                                         *)
(***************************************************************************)
\* The run found no handler for the hook of its request.
NoHandlerRegistered == Accepted /\ handler = NoHandler
\* The run's handler returned None.
HandlerDeclined == HandlerReturned /\ result = PyNone

C14_DeclineLooksLikeNoHandler ==
    (Terminal /\ (NoHandlerRegistered \/ HandlerDeclined))
        => /\ stdout = [written |-> << SkipLine >>, flushed |-> 1]
           /\ exit_status = << EXIT_SUCCESS >>

\* A run of the example plugin in which before_all declined.
C14_Witness ==
    /\ Terminal /\ HandlerDeclined
    /\ calls[1].fn = "before_all"
    /\ stdout = [written |-> << SkipLine >>, flushed |-> 1]

\* A run of the example plugin with a hook it has no handler for.
C14_WitnessNoHandler ==
    /\ Terminal /\ NoHandlerRegistered
    /\ handlers = ExamplePlugin
    /\ stdout = [written |-> << SkipLine >>, flushed |-> 1]

(***************************************************************************)
(* C15.  Every line written to standard output is an object of one of      *)
(* three shapes, told apart by status: {version, status: "skip"},          *)
(* {version, status: "ok", data}, {version, status: "error", error} with   *)
(* error a string.  version is 1 whatever version the request carries;     *)
(* data comes with "ok" only and error with "error" only.                  *)
(***************************************************************************)
ResponseShape(doc) ==
    /\ doc.k = "object"
    /\ {"version", "status"} \subseteq DOMAIN doc.v
    /\ doc.v["version"] = JInt(1)
    /\ \/ /\ doc.v["status"] = JStr("skip")
          /\ DOMAIN doc.v = {"version", "status"}
       \/ /\ doc.v["status"] = JStr("ok")
          /\ DOMAIN doc.v = {"version", "status", "data"}
       \/ /\ doc.v["status"] = JStr("error")
          /\ DOMAIN doc.v = {"version", "status", "error"}
          /\ doc.v["error"].k = "string"

C15_ThreeShapes ==
    \A i \in 1..Len(Written) : ResponseShape(Written[i].json)

\* Responses to requests whose version is 2: an error response written
\* after a handler raised.
C15_Witness ==
    /\ Terminal
    /\ Member(Text, "version") = JInt(2)
    /\ HandlerRaised
    /\ Len(Written) = 1
    /\ Written[1].json.v["status"] = JStr("error")
    /\ Written[1].json.v["version"] = JInt(1)

\* An ok response to a request whose version is 2.
C15_WitnessOk ==
    /\ Terminal
    /\ Member(Text, "version") = JInt(2)
    /\ Len(Written) = 1
    /\ Written[1].json.v["status"] = JStr("ok")
    /\ Written[1].json.v["version"] = JInt(1)

(***************************************************************************)
(* C16.  Once the host has closed standard input the process eventually    *)
(* ends (handlers of the model return or raise); while the host has not    *)
(* closed it the process is at or before the read, has written nothing     *)
(* and has not ended; and if the host never closes it the process stays    *)
(* in the read for ever.                                                   *)
(***************************************************************************)
C16_Termination ==
    /\ stdin.closed ~> (Terminal /\ Len(exit_status) = 1)
    /\ [](~stdin.closed => /\ pc \in {"Start", "ReadInput"}
                           /\ Written = <<>>
                           /\ exit_status = <<>>)
    /\ (([]~stdin.closed) => <>[](pc = "ReadInput"))

\* The process waiting in the read for a host that has not closed the stream.
C16_WitnessBlocked == pc = "ReadInput" /\ ~stdin.closed

\* A run that ended after the host closed the stream and a handler raised.
C16_Witness ==
    /\ Terminal /\ stdin.closed /\ HandlerRaised
    /\ Len(exit_status) = 1

(***************************************************************************)
(* C17.  The runtime routes by name only: a structurally valid request     *)
(* whose hook string is none of the four hook names is not rejected.  It   *)
(* is answered with skip and exit code 0 when the handler mapping has no   *)
(* entry under that string, and the handler registered under exactly that  *)
(* string is called when there is one.                                     *)
(***************************************************************************)
C17_RoutesByName ==
    (Terminal /\ ~SpecInvalid /\ RequestHook \notin HOOKS)
        => /\ Accepted
           /\ IF RequestHook \in DOMAIN handlers
              THEN /\ Len(calls) = 1
                   /\ calls[1].fn = handlers[RequestHook]
              ELSE /\ calls = <<>>
                   /\ Written = << SkipLine >>
                   /\ exit_status = << EXIT_SUCCESS >>

\* A handler registered under "custom.hook" was called and its tokens
\* answered with ok.
C17_Witness ==
    /\ Terminal /\ ~SpecInvalid
    /\ RequestHook = "custom.hook"
    /\ "custom.hook" \in DOMAIN handlers
    /\ Len(calls) = 1
    /\ calls[1].fn = AuthorHandler("custom.hook")
    /\ Len(Written) = 1 /\ StatusOf(Written[1]) = "ok"

\* "custom.hook" sent to the example plugin, which has no such handler.
C17_WitnessSkip ==
    /\ Terminal /\ ~SpecInvalid
    /\ RequestHook = "custom.hook"
    /\ handlers = ExamplePlugin
    /\ Written = << SkipLine >>

(***************************************************************************)
(* C18.  The example plugin's handlers do not modify the Data they are     *)
(* given: after before_all or after_all has returned, the Data object of   *)
(* the request is what was parsed from the host's text and what was passed *)
(* to the handler (same tokens in the same order with the same fields,     *)
(* same config); before_all's result is a sequence of its own, the banner  *)
(* followed by the given tokens; after_all returns None.                   *)
(***************************************************************************)
\* The Data object the request holds now.
DataNow == request.v["data"]

C18_DataUntouched ==
    (handlers = ExamplePlugin /\ HandlerReturned)
        => /\ DataNow = calls[1].data
           /\ DataNow = json_loads(Member(Text, "data"))
           /\ calls[1].fn = "after_all" => result = PyNone
           /\ (calls[1].fn = "before_all" /\ result # PyNone)
                => /\ DOMAIN result.v = {"tokens"}
                   /\ Len(result.v["tokens"].v)
                        = Len(DataNow.v["tokens"].v) + 2
                   /\ SubSeq(result.v["tokens"].v, 3,
                             Len(result.v["tokens"].v))
                        = DataNow.v["tokens"].v

\* before_all returned the banner and two tokens; the Data of the request
\* still has its two tokens and its config.
C18_Witness ==
    /\ Terminal /\ handlers = ExamplePlugin /\ HandlerReturned
    /\ calls[1].fn = "before_all"
    /\ result # PyNone
    /\ Len(DataNow.v["tokens"].v) = 2
    /\ "config" \in DOMAIN DataNow.v

\* after_all returned None on a request with tokens.
C18_WitnessAfterAll ==
    /\ Terminal /\ handlers = ExamplePlugin /\ HandlerReturned
    /\ calls[1].fn = "after_all"
    /\ Len(DataNow.v["tokens"].v) = 2
    /\ Len(stderr) = 1

\* Another author's handler that did change the Data it was given.
C18_WitnessOtherAuthorMutates ==
    /\ Terminal /\ HandlerReturned
    /\ DataNow # calls[1].data

(***************************************************************************)
(* C19.  When the request fails validation no handler is called, also      *)
(* when its hook string has a registered handler (a request with a         *)
(* registered hook but without data or version, say): a handler is called  *)
(* only on a request that passed every check of the parse step.            *)
(***************************************************************************)
\* The checks of the parse step, read off the host's text: JSON, an object,
\* version an int or float (true and false are ints), hook a str, data a
\* dict.
PassesParseChecks ==
    /\ Text.k = "object"
    /\ Member(Text, "version").k \in {"number", "true", "false"}
    /\ Member(Text, "hook").k = "string"
    /\ Member(Text, "data").k = "object"

\* The hook member of the text is a string with a registered handler.
HookRegistered ==
    /\ Member(Text, "hook").k = "string"
    /\ Member(Text, "hook").v \in DOMAIN handlers

C19_InvalidNeverInvokes ==
    /\ Len(calls) > 0 => PassesParseChecks /\ Accepted
    /\ (PastParse /\ ~Accepted) => calls = <<>> /\ handler = "unbound"
    /\ (Terminal /\ ~PassesParseChecks)
         => /\ calls = <<>>
            /\ Len(Written) = 1
            /\ StatusOf(Written[1]) = "error"

\* A request with a registered hook and no data: answered with an error,
\* no handler called.
C19_Witness ==
    /\ Terminal /\ HookRegistered
    /\ Member(Text, "version") = JInt(1)
    /\ Member(Text, "data") = Absent
    /\ calls = <<>>
    /\ StatusOf(Written[1]) = "error"

\* A request with a registered hook and no version.
C19_WitnessNoVersion ==
    /\ Terminal /\ HookRegistered
    /\ Member(Text, "version") = Absent
    /\ Member(Text, "data").k = "object"
    /\ calls = <<>>

(***************************************************************************)
(* C20.  When the value a handler returned cannot be encoded as JSON, the  *)
(* encoding fails before anything is written: standard output never holds  *)
(* an "ok" line or a partial line, nothing is written until the error      *)
(* response, and the run ends with the single response of status "error"   *)
(* and exit code 1 from the runtime's own exit, the TypeError caught.      *)
(***************************************************************************)
C20_UnencodableGivesError ==
    (HandlerReturned /\ ~json_encodable(result))
        => /\ \A i \in 1..Len(Written) :
                /\ Written[i].newline
                /\ StatusOf(Written[i]) = "error"
           /\ pc \in {"Respond", "Except"} => Written = <<>>
           /\ pc \in {"SysExit", "Exit"}
                => /\ Len(Written) = 1
                   /\ stdout.flushed = 1
                   /\ exc.cls = "TypeError"
                   /\ Written[1].json.v["error"] = JStr(exc.msg)
           /\ Terminal => /\ exit_status = << EXIT_FAILURE >>
                          /\ exit_status # << EXIT_SUCCESS >>

\* A handler returned a set; the run ended with one error response and a
\* non-zero exit code.
C20_Witness ==
    /\ Terminal /\ HandlerReturned
    /\ result = PySet
    /\ Len(Written) = 1
    /\ StatusOf(Written[1]) = "error"
    /\ exit_status = << EXIT_FAILURE >>
====
